---------------------------- MODULE Spec2Model ----------------------------
(***************************************************************************)
(* A model of the pHash robustness benchmark: the scoring pipeline of      *)
(* utils.py (extract_features, match_features, calculate_match_score,      *)
(* detect_matches), the evaluation driver of detect.py (main), the         *)
(* producer of manipulate.py (apply_manipulations) and the download loop   *)
(* of fetch_images.py (fetch_images_from_pixabay).                         *)
(*                                                                         *)
(* Representation choices                                                  *)
(*  - a file name is the sequence of its ASCII codes, so that sorted(),    *)
(*    lower(), endswith() and splitext() are computed on characters;       *)
(*  - a 64-bit fingerprint is the set of its set bit positions within      *)
(*    1..HASH_BITS; ImageHash.__sub__ counts the differing positions;      *)
(*  - a score is an exact fraction [n, d] in lowest terms. The floats the  *)
(*    program computes, (64 - distance) / 64 * 100 and their sums, are     *)
(*    dyadic numbers with 4 fractional bits and are exact in binary64;     *)
(*    NaN (the mean of an empty column) is a value of its own.             *)
(***************************************************************************)
EXTENDS Integers, Sequences, FiniteSets, TLC

(***************************************************************************)
(* Bounds of the model.                                                    *)
(***************************************************************************)
\* at most this many entries in the originals directory
MaxFiles == 2
\* the driver is run with the first NumManip entries of the catalogue
NumManip == 2

(***************************************************************************)
(* Strings as sequences of ASCII codes.                                    *)
(***************************************************************************)
EXT_JPG == <<46, 106, 112, 103>>
EXT_JPEG == <<46, 106, 112, 101, 103>>
EXT_PNG == <<46, 112, 110, 103>>

\* str.lower() on ASCII: 'A'..'Z' (65..90) map to 'a'..'z'
lower(s) == [i \in 1..Len(s) |-> IF s[i] >= 65 /\ s[i] <= 90 THEN s[i] + 32 ELSE s[i]]

\* str.endswith(suffix)
endswith(s, suffix) ==
    /\ Len(suffix) <= Len(s)
    /\ SubSeq(s, Len(s) - Len(suffix) + 1, Len(s)) = suffix

\* the filter of manipulate.py: f.endswith(('.jpg','.jpeg','.png')), no lower()
IsImageNameCaseSensitive(f) ==
    \/ endswith(f, EXT_JPG)
    \/ endswith(f, EXT_JPEG)
    \/ endswith(f, EXT_PNG)

\* the filter of detect.py: f.lower().endswith(('.jpg','.jpeg','.png'))
IsImageName(f) ==
    \/ endswith(lower(f), EXT_JPG)
    \/ endswith(lower(f), EXT_JPEG)
    \/ endswith(lower(f), EXT_PNG)

\* Python's str "<": lexicographic on code points, a proper prefix is smaller
RECURSIVE StrLess(_, _)
StrLess(s, t) ==
    IF t = <<>> THEN FALSE
    ELSE IF s = <<>> THEN TRUE
    ELSE IF s[1] # t[1] THEN s[1] < t[1]
    ELSE StrLess(Tail(s), Tail(t))

\* os.listdir order is arbitrary; one of the orders it can return
RECURSIVE listdirOrder(_)
listdirOrder(S) ==
    IF S = {} THEN <<>>
    ELSE LET m == CHOOSE x \in S : \A y \in S : x = y \/ StrLess(y, x)
         IN  <<m>> \o listdirOrder(S \ {m})

\* sorted(list of distinct str): ascending by StrLess
RECURSIVE sorted(_)
sorted(S) ==
    IF S = {} THEN <<>>
    ELSE LET m == CHOOSE x \in S : \A y \in S : x = y \/ StrLess(x, y)
         IN  <<m>> \o sorted(S \ {m})

\* index of the last '.' (code 46) of s, 0 when there is none
RECURSIVE LastDot(_, _)
LastDot(s, i) ==
    IF i = 0 THEN 0
    ELSE IF s[i] = 46 THEN i
    ELSE LastDot(s, i - 1)

\* os.path.splitext(f)[0] for a name without directory separators: cut at
\* the last dot unless the name has none or only leading dots
splitext0(f) ==
    LET k == LastDot(f, Len(f))
    IN  IF k = 0 \/ (\A i \in 1..k : f[i] = 46) THEN f
        ELSE SubSeq(f, 1, k - 1)

(***************************************************************************)
(* Exact fractions standing for the program's floats.                      *)
(***************************************************************************)
RECURSIVE GCD(_, _)
GCD(a, b) == IF b = 0 THEN a ELSE GCD(b, a % b)

\* n / d for n >= 0, d > 0, in lowest terms
Frac(n, d) == LET g == GCD(n, d) IN [n |-> n \div g, d |-> d \div g]

NaN == [n |-> 0, d |-> 0]
Num(x) == Frac(x, 1)
IsNaN(x) == x.d = 0
FracAdd(x, y) == Frac(x.n * y.d + y.n * x.d, x.d * y.d)
FracDivInt(x, m) == IF m = 0 THEN NaN ELSE Frac(x.n, x.d * m)
\* float "<": every comparison with NaN is False
FracLess(x, y) == ~IsNaN(x) /\ ~IsNaN(y) /\ x.n * y.d < y.n * x.d

(***************************************************************************)
(* Files, images and fingerprints.                                         *)
(***************************************************************************)
\* bit length of a fingerprint, the literal of calculate_match_score
HASH_BITS == 64

Low(k) == 1..k
High(k) == (k + 1)..HASH_BITS

\* what a path can hold: nothing, bytes that are no image, an image whose
\* header parses but whose pixel data is cut short, or a complete image.
\* hash is the value imagehash.phash gives for the decoded picture.
File(kind, hash) == [kind |-> kind, hash |-> hash]
Absent == File("absent", {})
Corrupt == File("corrupt", {})
Truncated == File("truncated", {})
Picture(h) == File("image", h)

\* Image.open(path) raises FileNotFoundError / UnidentifiedImageError (both
\* OSError) for a missing or unidentifiable file; it reads the header only
OpenRaises(file) == file.kind \in {"absent", "corrupt"}

\* Image.convert('L') loads the pixel data: OSError on a truncated file
ConvertRaises(img) == img.kind = "truncated"

\* ImageHash.__sub__: the number of positions where the two hashes differ
OneSidedDistance(h1, h2) == Cardinality(h1 \ h2)

HammingDistance(h1, h2) == Cardinality((h1 \ h2) \cup (h2 \ h1))

\* a descriptor: an ImageHash, or Python's None
Hash(h) == [none |-> FALSE, hash |-> h]
None == [none |-> TRUE, hash |-> {}]

extract_features(img, method) ==
    IF method = "phash" THEN Hash(img.hash) ELSE None

\* the list holding one MockMatch, or the empty list
match_features(desc1, desc2, method) ==
    IF desc1 = None \/ desc2 = None THEN <<>>
    ELSE IF method = "phash"
         THEN <<[distance |-> HammingDistance(desc1.hash, desc2.hash)]>>
    ELSE <<>>

\* variants of the score formula: the complement dropped, floor division
ScoreWithoutComplement(matches, method) ==
    IF matches = <<>> THEN Num(0)
    ELSE IF method = "phash" THEN Frac(matches[1].distance * 100, HASH_BITS)
    ELSE Num(0)

ScoreFloorDiv(matches, method) ==
    IF matches = <<>> THEN Num(0)
    ELSE IF method = "phash"
         THEN Num(((HASH_BITS - matches[1].distance) \div HASH_BITS) * 100)
    ELSE Num(0)

calculate_match_score(matches, method) ==
    IF matches = <<>> THEN Num(0)
    ELSE IF method = "phash"
         THEN Frac((HASH_BITS - matches[1].distance) * 100, HASH_BITS)
    ELSE Num(0)

\* detect_matches as one call: what it returns, or that it raises
Returned(v) == [kind |-> "return", value |-> v]
Raised == [kind |-> "raise", value |-> NaN]

DetectMatches(file1, file2, method) ==
    IF OpenRaises(file1) \/ OpenRaises(file2) THEN Returned(Num(0))
    ELSE IF ConvertRaises(file1) \/ ConvertRaises(file2) THEN Raised
    ELSE Returned(calculate_match_score(
             match_features(extract_features(file1, method),
                            extract_features(file2, method), method), method))

(***************************************************************************)
(* The catalogue and the aggregation helpers of the driver.                *)
(***************************************************************************)
\* the dict MANIPULATION_TYPES in insertion order: <<code of the letter, name>>
MANIPULATION_TYPES ==
    << <<97, "crop_20">>, <<98, "rotate_10">>, <<99, "flip_h">>,
       <<100, "brightness_1.3">>, <<101, "contrast_0.7">>,
       <<102, "gaussian_blur">>, <<103, "noise_saltpepper">>,
       <<104, "color_filter">>, <<105, "watermark">>,
       <<106, "canvas_expand">>, <<107, "jpeg_compression">>,
       <<108, "collage">>, <<109, "text_obfuscation">>,
       <<110, "invert_colors">> >>

\* the catalogue the driver is run with
Catalogue == SubSeq(MANIPULATION_TYPES, 1, NumManip)

get_all_manipulation_types == [k \in 1..Len(Catalogue) |-> Catalogue[k][2]]

ManipNames == {get_all_manipulation_types[k] : k \in 1..Len(Catalogue)}

\* f"{image_id}{letter}.jpg"
ManipFileName(image_id, letter) == image_id \o <<letter>> \o EXT_JPG

RECURSIVE SumSeq(_)
SumSeq(col) == IF col = <<>> THEN Num(0) ELSE FracAdd(Head(col), SumSeq(Tail(col)))

\* variant of the mean: the sentinel zeros left out of sum and divisor
MeanOfNonZero(col) ==
    FracDivInt(SumSeq(col), Cardinality({i \in 1..Len(col) : col[i] # Num(0)}))

\* Series.mean(): the sum over the number of rows, NaN for no rows
Mean(col) == FracDivInt(SumSeq(col), Len(col))

\* variant of min(): a later element replaces an equal earlier one
RECURSIVE PyMinLast(_, _, _)
PyMinLast(keys, val, best) ==
    IF keys = <<>> THEN best
    ELSE PyMinLast(Tail(keys), val,
                   IF ~FracLess(val[best], val[Head(keys)]) THEN Head(keys) ELSE best)

\* min(iterable, key=...): the running best is replaced only by a strictly
\* smaller key, so the first of equal minima is returned
RECURSIVE PyMin(_, _, _)
PyMin(keys, val, best) ==
    IF keys = <<>> THEN best
    ELSE PyMin(Tail(keys), val,
               IF FracLess(val[Head(keys)], val[best]) THEN Head(keys) ELSE best)

(***************************************************************************)
(* The inputs: directory entries and file contents.                        *)
(***************************************************************************)
\* "10.jpg", "2.PNG", "2.jpg", "1.txt"
CandidateNames ==
    { <<49, 48>> \o EXT_JPG, <<50, 46, 80, 78, 71>>, <<50>> \o EXT_JPG,
      <<49, 46, 116, 120, 116>> }

DirStatus == {"ok", "absent", "unreadable"}

\* fingerprints of the pictures the driver meets
DriverHashes == {Low(0), Low(24)}

OriginalFiles == {Corrupt, Truncated, Picture(Low(0))}
ManipulatedFiles == {Absent, Corrupt, Truncated} \cup {Picture(h) : h \in DriverHashes}

\* inputs of the scoring pipeline taken alone
PipelineFiles ==
    {Absent, Corrupt, Truncated}
        \cup {Picture(Low(k)) : k \in 0..HASH_BITS}
        \cup {Picture(High(k)) : k \in {0, 20, 40}}

Methods == {"phash", "orb"}

\* A file is fixed for the run and known as far as the program has looked:
\* os.path.exists tells whether it is there, Image.open and convert read it.
\* Unread stands for a file known to exist whose bytes were not read yet.
Unread == File("unread", {})

\* the outcomes of os.path.exists(path)
ObserveExists(seen, path, options) ==
    IF path \in DOMAIN seen THEN {seen[path] # Absent}
    ELSE {f # Absent : f \in options}

\* the contents Image.open can find at a path that exists
ObserveContent(seen, path, options) ==
    IF path \in DOMAIN seen /\ seen[path] # Unread THEN {seen[path]}
    ELSE options \ {Absent}

Remember(seen, path, file) == (path :> file) @@ seen

NoFiles == [x \in {} |-> Absent]

(***************************************************************************)
(* State.                                                                  *)
(***************************************************************************)
VARIABLES
    \* the file system
    originals,        \* [status, names]: the originals directory
    manipulatedDir,   \* status of the manipulated directory
    originalSeen,     \* contents of the original files opened so far
    manipulatedSeen,  \* contents of the manipulated paths looked at so far
    \* main() of detect.py
    pc,               \* "start", "loop", "done", "failed", "aborted", "off"
    original_files,   \* the sorted list of original file names
    oi,               \* index of the original being processed, 0 before the first
    ki,               \* index of the next catalogue entry for that original
    results,          \* the dict of lists
    detect_calls,     \* the (orig_file, manip_file) pairs passed to detect_matches
    df,               \* the DataFrame, as its sequence of rows
    avg_scores,       \* manipulation name -> mean
    hardest_manip,
    hardest_score,
    csv,              \* [written, rows]: phash_results.csv
    \* one call of detect_matches(), statement by statement
    dpc,              \* "open", "convert", "extract", "match", "score", "done", "off"
    method,
    file1,            \* what original_path holds
    file2,            \* what manipulated_path holds
    img1_gray,
    img2_gray,
    hash1,
    hash2,
    matches,
    ret,
    \* apply_manipulations() of manipulate.py
    manip_pc,         \* "start", "loop", "done", "aborted", "off"
    manip_files,      \* its sorted list of original file names
    manip_i,          \* index of the original being manipulated, 0 before the first
    manip_k,          \* index of the next catalogue entry for that original
    \* fetch_images_from_pixabay() of fetch_images.py
    fetch_pc,         \* "start", "while", "for", "done", "raised", "off"
    existing_images,  \* matching files found in the originals folder
    downloaded_count,
    page,
    hits_left,        \* hits of the current response not yet iterated
    page_requests     \* number of API page requests issued

fsVars == <<originals, manipulatedDir, originalSeen, manipulatedSeen>>
mainVars == <<pc, original_files, oi, ki, results, detect_calls, df, avg_scores,
              hardest_manip, hardest_score, csv>>
detectVars == <<dpc, method, file1, file2, img1_gray, img2_gray, hash1, hash2,
                matches, ret>>
manipVars == <<manip_pc, manip_files, manip_i, manip_k>>
fetchVars == <<fetch_pc, existing_images, downloaded_count, page, hits_left,
               page_requests>>
vars == <<fsVars, mainVars, detectVars, manipVars, fetchVars>>

ManipIdle ==
    /\ manip_pc = "off"
    /\ manip_files = <<>>
    /\ manip_i = 0
    /\ manip_k = 1

FetchIdle ==
    /\ fetch_pc = "off"
    /\ existing_images = 0
    /\ downloaded_count = 0
    /\ page = 1
    /\ hits_left = 0
    /\ page_requests = 0

NoReturn == [kind |-> "none", value |-> NaN]

(***************************************************************************)
(* main() of detect.py.                                                    *)
(***************************************************************************)
DetectIdle ==
    /\ dpc = "off"
    /\ method = "phash"
    /\ file1 = Absent
    /\ file2 = Absent
    /\ img1_gray = Absent
    /\ img2_gray = Absent
    /\ hash1 = None
    /\ hash2 = None
    /\ matches = <<>>
    /\ ret = NoReturn

Init ==
    /\ originals \in [status : DirStatus,
                      names : {S \in SUBSET CandidateNames : Cardinality(S) <= MaxFiles}]
    /\ originals.status # "ok" => originals.names = {}
    /\ manipulatedDir \in DirStatus
    /\ originalSeen = NoFiles
    /\ manipulatedSeen = NoFiles
    /\ pc = "start"
    /\ original_files = <<>>
    /\ oi = 0
    /\ ki = 1
    /\ results = [c \in {"image_id"} |-> <<>>]
    /\ detect_calls = {}
    /\ df = <<>>
    /\ avg_scores = [c \in {} |-> NaN]
    /\ hardest_manip = ""
    /\ hardest_score = NaN
    /\ csv = [written |-> FALSE, rows |-> <<>>]
    /\ DetectIdle
    /\ ManipIdle
    /\ FetchIdle

\* variant of the failing enumeration: the error taken for an empty directory
ListOriginalsFailsQuietly ==
    /\ pc = "start"
    /\ originals.status # "ok"
    /\ original_files' = <<>>
    /\ results' = [c \in ManipNames \cup {"image_id"} |-> <<>>]
    /\ pc' = "loop"
    /\ UNCHANGED <<oi, ki, detect_calls, df, avg_scores, hardest_manip,
                   hardest_score, csv>>
    /\ UNCHANGED <<fsVars, detectVars, manipVars, fetchVars>>

\* os.listdir(args.originals) raises: the directory is missing or unreadable
ListOriginalsFails ==
    /\ pc = "start"
    /\ originals.status # "ok"
    /\ pc' = "failed"
    /\ UNCHANGED <<original_files, oi, ki, results, detect_calls, df, avg_scores,
                   hardest_manip, hardest_score, csv>>
    /\ UNCHANGED <<fsVars, detectVars, manipVars, fetchVars>>

\* lines 52-56: the sorted list of image names and the empty dict of lists
ListOriginals ==
    /\ pc = "start"
    /\ originals.status = "ok"
    /\ original_files' = sorted({f \in originals.names : IsImageName(f)})
    /\ results' = [c \in ManipNames \cup {"image_id"} |-> <<>>]
    /\ pc' = "loop"
    /\ UNCHANGED <<oi, ki, detect_calls, df, avg_scores, hardest_manip,
                   hardest_score, csv>>
    /\ UNCHANGED <<fsVars, detectVars, manipVars, fetchVars>>

orig_file == original_files[oi]
image_id == splitext0(orig_file)
letter == Catalogue[ki][1]
manip_name == Catalogue[ki][2]
manip_file == ManipFileName(image_id, letter)

\* os.path.exists(manip_path) is False under a missing or unsearchable directory
ManipulatedOptions ==
    IF manipulatedDir = "ok" THEN ManipulatedFiles ELSE {Absent}

InnerLoopOver == oi = 0 \/ ki > Len(Catalogue)

\* lines 60-63: the next original, its identifier appended
NextImage ==
    /\ pc = "loop"
    /\ InnerLoopOver
    /\ oi < Len(original_files)
    /\ oi' = oi + 1
    /\ ki' = 1
    /\ results' = [results EXCEPT !["image_id"] =
                      Append(@, splitext0(original_files[oi + 1]))]
    /\ UNCHANGED <<pc, original_files, detect_calls, df, avg_scores,
                   hardest_manip, hardest_score, csv>>
    /\ UNCHANGED <<fsVars, detectVars, manipVars, fetchVars>>

\* variant of the missing-file branch: nothing recorded for the cell
CellMissingSkipped ==
    /\ pc = "loop"
    /\ oi >= 1
    /\ ki <= Len(Catalogue)
    /\ FALSE \in ObserveExists(manipulatedSeen, manip_file, ManipulatedOptions)
    /\ manipulatedSeen' = Remember(manipulatedSeen, manip_file, Absent)
    /\ ki' = ki + 1
    /\ UNCHANGED <<results, pc, original_files, oi, detect_calls, df, avg_scores,
                   hardest_manip, hardest_score, csv>>
    /\ UNCHANGED <<originals, manipulatedDir, originalSeen, detectVars, manipVars, fetchVars>>

\* variant of the missing-file branch: the path handed to detect_matches
CellMissingDetected ==
    /\ pc = "loop"
    /\ oi >= 1
    /\ ki <= Len(Catalogue)
    /\ FALSE \in ObserveExists(manipulatedSeen, manip_file, ManipulatedOptions)
    /\ manipulatedSeen' = Remember(manipulatedSeen, manip_file, Absent)
    /\ results' = [results EXCEPT ![manip_name] =
                      Append(@, DetectMatches(Absent, Absent, "phash").value)]
    /\ detect_calls' = detect_calls \cup {<<orig_file, manip_file>>}
    /\ ki' = ki + 1
    /\ UNCHANGED <<pc, original_files, oi, df, avg_scores,
                   hardest_manip, hardest_score, csv>>
    /\ UNCHANGED <<originals, manipulatedDir, originalSeen, detectVars, manipVars, fetchVars>>

\* lines 65-71: the manipulated file does not exist, 0 is recorded
CellMissing ==
    /\ pc = "loop"
    /\ oi >= 1
    /\ ki <= Len(Catalogue)
    /\ FALSE \in ObserveExists(manipulatedSeen, manip_file, ManipulatedOptions)
    /\ manipulatedSeen' = Remember(manipulatedSeen, manip_file, Absent)
    /\ results' = [results EXCEPT ![manip_name] = Append(@, Num(0))]
    /\ ki' = ki + 1
    /\ UNCHANGED <<pc, original_files, oi, detect_calls, df, avg_scores,
                   hardest_manip, hardest_score, csv>>
    /\ UNCHANGED <<originals, manipulatedDir, originalSeen, detectVars, manipVars, fetchVars>>

\* lines 65-74: the manipulated file exists, detect_matches is called; what it
\* raises is not caught and ends main(). Image.open(original_path) comes
\* first: when it raises, the manipulated file is not read.
CellDetect ==
    /\ pc = "loop"
    /\ oi >= 1
    /\ ki <= Len(Catalogue)
    /\ TRUE \in ObserveExists(manipulatedSeen, manip_file, ManipulatedOptions)
    /\ \E f1 \in ObserveContent(originalSeen, orig_file, OriginalFiles) :
       \E f2 \in IF OpenRaises(f1)
                 THEN {IF manip_file \in DOMAIN manipulatedSeen
                       THEN manipulatedSeen[manip_file] ELSE Unread}
                 ELSE ObserveContent(manipulatedSeen, manip_file, ManipulatedOptions) :
          /\ originalSeen' = Remember(originalSeen, orig_file, f1)
          /\ manipulatedSeen' = Remember(manipulatedSeen, manip_file, f2)
          /\ LET score == DetectMatches(f1, f2, "phash")
             IN  IF score.kind = "raise"
                 THEN /\ pc' = "aborted"
                      /\ UNCHANGED <<results, ki>>
                 ELSE /\ results' = [results EXCEPT ![manip_name] =
                                        Append(@, score.value)]
                      /\ ki' = ki + 1
                      /\ pc' = pc
    /\ detect_calls' = detect_calls \cup {<<orig_file, manip_file>>}
    /\ UNCHANGED <<original_files, oi, df, avg_scores, hardest_manip,
                   hardest_score, csv>>
    /\ UNCHANGED <<originals, manipulatedDir, detectVars, manipVars, fetchVars>>

\* pd.DataFrame(dict of lists) needs lists of one length
ListsAgree == \A c \in DOMAIN results : Len(results[c]) = Len(results["image_id"])

\* the scores of row i in catalogue order
RowScores(i) == [k \in 1..Len(Catalogue) |-> results[get_all_manipulation_types[k]][i]]

\* lines 76-78: one row per list position, with the method and avg_score columns
DataFrame ==
    [i \in 1..Len(results["image_id"]) |->
        [c \in DOMAIN results \cup {"method", "avg_score"} |->
            IF c = "method" THEN "phash"
            ELSE IF c = "avg_score" THEN Mean(RowScores(i))
            ELSE results[c][i]]]

Column(frame, c) == [i \in 1..Len(frame) |-> frame[i][c]]

\* lines 76-87: the table, the means, the hardest manipulation, the CSV file
Report ==
    /\ pc = "loop"
    /\ InnerLoopOver
    /\ oi = Len(original_files)
    /\ IF ListsAgree
       THEN /\ df' = DataFrame
            /\ avg_scores' = [c \in ManipNames |-> Mean(Column(df', c))]
            /\ hardest_manip' = PyMin(Tail(get_all_manipulation_types), avg_scores',
                                      Head(get_all_manipulation_types))
            /\ hardest_score' = avg_scores'[hardest_manip']
            /\ csv' = [written |-> TRUE, rows |-> df']
            /\ pc' = "done"
       ELSE /\ pc' = "aborted"
            /\ UNCHANGED <<df, avg_scores, hardest_manip, hardest_score, csv>>
    /\ UNCHANGED <<original_files, oi, ki, results, detect_calls>>
    /\ UNCHANGED <<fsVars, detectVars, manipVars, fetchVars>>

Next ==
    \/ ListOriginalsFails
    \/ ListOriginals
    \/ NextImage
    \/ CellMissing
    \/ CellDetect
    \/ Report

Spec == Init /\ [][Next]_vars

(***************************************************************************)
(* detect_matches() of utils.py taken alone, one statement per step, for   *)
(* any pair of files and any method.                                       *)
(***************************************************************************)
MainIdle ==
    /\ originals = [status |-> "absent", names |-> {}]
    /\ manipulatedDir = "absent"
    /\ originalSeen = NoFiles
    /\ manipulatedSeen = NoFiles
    /\ pc = "off"
    /\ original_files = <<>>
    /\ oi = 0
    /\ ki = 1
    /\ results = [c \in {"image_id"} |-> <<>>]
    /\ detect_calls = {}
    /\ df = <<>>
    /\ avg_scores = [c \in {} |-> NaN]
    /\ hardest_manip = ""
    /\ hardest_score = NaN
    /\ csv = [written |-> FALSE, rows |-> <<>>]

InitDetect ==
    /\ MainIdle
    /\ ManipIdle
    /\ FetchIdle
    /\ dpc = "open"
    /\ method \in Methods
    /\ file1 \in PipelineFiles
    /\ file2 \in PipelineFiles
    /\ img1_gray = Absent
    /\ img2_gray = Absent
    /\ hash1 = None
    /\ hash2 = None
    /\ matches = <<>>
    /\ ret = NoReturn

\* lines 57-61: both files opened; IOError is answered with 0
OpenImages ==
    /\ dpc = "open"
    /\ IF OpenRaises(file1) \/ OpenRaises(file2)
       THEN /\ ret' = Returned(Num(0))
            /\ dpc' = "done"
       ELSE /\ ret' = ret
            /\ dpc' = "convert"
    /\ UNCHANGED <<method, file1, file2, img1_gray, img2_gray, hash1, hash2, matches>>
    /\ UNCHANGED <<fsVars, mainVars, manipVars, fetchVars>>

\* lines 62-63: convert('L') outside the try block
ConvertImages ==
    /\ dpc = "convert"
    /\ IF ConvertRaises(file1) \/ ConvertRaises(file2)
       THEN /\ ret' = Raised
            /\ dpc' = "done"
            /\ UNCHANGED <<img1_gray, img2_gray>>
       ELSE /\ img1_gray' = file1
            /\ img2_gray' = file2
            /\ ret' = ret
            /\ dpc' = "extract"
    /\ UNCHANGED <<method, file1, file2, hash1, hash2, matches>>
    /\ UNCHANGED <<fsVars, mainVars, manipVars, fetchVars>>

\* lines 64-65
ExtractFeatures ==
    /\ dpc = "extract"
    /\ hash1' = extract_features(img1_gray, method)
    /\ hash2' = extract_features(img2_gray, method)
    /\ dpc' = "match"
    /\ UNCHANGED <<method, file1, file2, img1_gray, img2_gray, matches, ret>>
    /\ UNCHANGED <<fsVars, mainVars, manipVars, fetchVars>>

\* line 66
MatchFeatures ==
    /\ dpc = "match"
    /\ matches' = match_features(hash1, hash2, method)
    /\ dpc' = "score"
    /\ UNCHANGED <<method, file1, file2, img1_gray, img2_gray, hash1, hash2, ret>>
    /\ UNCHANGED <<fsVars, mainVars, manipVars, fetchVars>>

\* line 67
CalculateScore ==
    /\ dpc = "score"
    /\ ret' = Returned(calculate_match_score(matches, method))
    /\ dpc' = "done"
    /\ UNCHANGED <<method, file1, file2, img1_gray, img2_gray, hash1, hash2, matches>>
    /\ UNCHANGED <<fsVars, mainVars, manipVars, fetchVars>>

NextDetect ==
    \/ OpenImages
    \/ ConvertImages
    \/ ExtractFeatures
    \/ MatchFeatures
    \/ CalculateScore

SpecDetect == InitDetect /\ [][NextDetect]_vars

\* the statement-by-statement run and the one-call form used by main() agree
DetectStepsAgree == dpc = "done" => ret = DetectMatches(file1, file2, method)

(***************************************************************************)
(* Properties of the driver (specification Spec).                          *)
(***************************************************************************)
M == Len(original_files)
K == Len(Catalogue)
NameOf(k) == get_all_manipulation_types[k]
CellFile(i, k) == ManipFileName(splitext0(original_files[i]), Catalogue[k][1])
CellDone(i, k) == i < oi \/ (i = oi /\ k < ki)
Recorded(i, k) == Len(results[NameOf(k)]) >= i
LoopFinished == pc = "loop" /\ InnerLoopOver /\ oi = M

\* C1: after each original has been fully processed every manipulation list
\* is as long as the image_id list; when the loop has finished all of them
\* have M entries, and the table built from them has M rows, each with
\* exactly the K score columns of the catalogue, every cell a number.
C1_FullTable ==
    /\ (pc = "loop" /\ InnerLoopOver) =>
          \A c \in DOMAIN results :
             Len(results[c]) = oi /\ Len(results["image_id"]) = oi
    /\ (LoopFinished \/ pc = "done") =>
          \A c \in ManipNames : Len(results[c]) = M
    /\ pc = "done" =>
          /\ Len(df) = M
          /\ Cardinality(ManipNames) = K
          /\ \A i \in 1..Len(df) :
                /\ DOMAIN df[i] \ {"image_id", "method", "avg_score"} = ManipNames
                /\ \A c \in ManipNames : ~IsNaN(df[i][c])

C1_Witness ==
    /\ pc = "done"
    /\ Len(df) = 2
    /\ \E p \in DOMAIN manipulatedSeen : manipulatedSeen[p] = Absent
    /\ \E c \in ManipNames : df[2][c] # Num(0)

\* C2: a cell whose file {identifier}{code}.jpg does not exist has score 0,
\* detect_matches was not called for it, and the run did not stop at it.
C2_MissingFileScoresZero ==
    /\ pc \in {"loop", "done", "aborted"} =>
          \A i \in 1..oi : \A k \in 1..K :
             (CellDone(i, k) /\ manipulatedSeen[CellFile(i, k)] = Absent) =>
                /\ Recorded(i, k)
                /\ results[NameOf(k)][i] = Num(0)
                /\ <<original_files[i], CellFile(i, k)>> \notin detect_calls
    /\ pc = "aborted" =>
          /\ oi >= 1
          /\ ki <= K
          /\ CellFile(oi, ki) \in DOMAIN manipulatedSeen
          /\ manipulatedSeen[CellFile(oi, ki)] # Absent

C2_Witness ==
    /\ pc = "done"
    /\ manipulatedDir = "ok"
    /\ detect_calls # {}
    /\ \E i \in 1..M : \E k \in 1..K :
          /\ manipulatedSeen[CellFile(i, k)] = Absent
          /\ k < K
          /\ manipulatedSeen[CellFile(i, k + 1)] # Absent

Undecodable(file) == file.kind \in {"corrupt", "truncated"}

\* C3: a manipulated file that is present but cannot be decoded, at open
\* time or later, gives its cell the score 0 and the run does not abort.
C3_UndecodableScoresZero ==
    /\ pc \in {"loop", "done"} =>
          \A i \in 1..oi : \A k \in 1..K :
             (CellDone(i, k) /\ Undecodable(manipulatedSeen[CellFile(i, k)])) =>
                Recorded(i, k) /\ results[NameOf(k)][i] = Num(0)
    /\ pc = "aborted" =>
          ~(/\ oi >= 1
            /\ ki <= K
            /\ CellFile(oi, ki) \in DOMAIN manipulatedSeen
            /\ Undecodable(manipulatedSeen[CellFile(oi, ki)]))

NothingEvaluated ==
    /\ \A c \in DOMAIN results : results[c] = <<>>
    /\ detect_calls = {}
    /\ manipulatedSeen = NoFiles

NoTable == df = <<>> /\ ~csv.written /\ pc # "done"

C5_HardestIsFirstMinimum ==
    pc = "done" =>
        \E h \in 1..K :
            /\ hardest_manip = NameOf(h)
            /\ \A k \in 1..K : ~FracLess(avg_scores[NameOf(k)], avg_scores[NameOf(h)])
            /\ \A k \in 1..(h - 1) :
                  FracLess(avg_scores[NameOf(h)], avg_scores[NameOf(k)])
            /\ hardest_score = avg_scores[NameOf(h)]

C5_Witness ==
    /\ pc = "done"
    /\ M = 2
    /\ hardest_manip = NameOf(1)
    /\ avg_scores[NameOf(1)] = avg_scores[NameOf(2)]
    /\ FracLess(Num(0), avg_scores[NameOf(1)])
    /\ FracLess(avg_scores[NameOf(1)], Num(100))

\* C6: each type's aggregate times M equals the sum of that type's cells over
\* all M rows, the zeros of missing files included; cells 70, 0, 0 give 70/3,
\* cells 90, 85, 92 give 89, and of these two the first is the hardest.
C6_MeanCountsZeros ==
    /\ (pc = "done" /\ M >= 1) =>
          \A k \in 1..K :
             LET total == SumSeq(results[NameOf(k)])
                 avg == avg_scores[NameOf(k)]
             IN  /\ ~IsNaN(avg)
                 /\ Len(results[NameOf(k)]) = M
                 /\ avg.n * M * total.d = total.n * avg.d
    /\ pc = "done" =>
          LET flip == Mean(<<Num(70), Num(0), Num(0)>>)
              rotate == Mean(<<Num(90), Num(85), Num(92)>>)
              avg == [c \in {"rotate", "flip"} |-> IF c = "flip" THEN flip ELSE rotate]
          IN  /\ flip = Frac(70, 3)
              /\ rotate = Num(89)
              /\ PyMin(<<"flip">>, avg, "rotate") = "flip"

C6_Witness ==
    /\ pc = "done"
    /\ M = 2
    /\ \E k \in 1..K :
          /\ manipulatedSeen[CellFile(1, k)] = Absent
          /\ results[NameOf(k)][2] = Num(100)
          /\ avg_scores[NameOf(k)] = Num(50)

\* C10: the originals are processed in sorted file-name order, the i-th
\* image_id is the identifier of the i-th sorted original, and at the end the
\* i-th entry of every column is the score of that original for the column's
\* manipulation: 0 for a missing file, else what detect_matches returns.
CellScore(i, k) ==
    IF manipulatedSeen[CellFile(i, k)] = Absent THEN Num(0)
    ELSE DetectMatches(originalSeen[original_files[i]],
                       manipulatedSeen[CellFile(i, k)], "phash").value

C10_RowsSortedAndAligned ==
    /\ pc \in {"loop", "done", "aborted"} =>
          /\ \A i \in 1..M : \A j \in 1..M :
                i < j => StrLess(original_files[i], original_files[j])
          /\ {original_files[i] : i \in 1..M} =
                {f \in originals.names : IsImageName(f)}
          /\ Len(results["image_id"]) = oi
          /\ \A i \in 1..oi : results["image_id"][i] = splitext0(original_files[i])
    /\ pc = "done" =>
          \A i \in 1..M :
             /\ df[i]["image_id"] = splitext0(original_files[i])
             /\ \A k \in 1..K : df[i][NameOf(k)] = CellScore(i, k)

C10_Witness ==
    /\ pc = "done"
    /\ results["image_id"] = << <<49, 48>>, <<50>> >>
    /\ \E p \in DOMAIN manipulatedSeen : manipulatedSeen[p] = Absent
    /\ \E k \in 1..K : df[1][NameOf(k)] # df[2][NameOf(k)]

(***************************************************************************)
(* Properties of the scoring pipeline (specification SpecDetect).          *)
(***************************************************************************)
BothPictures == file1.kind = "image" /\ file2.kind = "image"
Scored == dpc = "done" /\ method = "phash" /\ BothPictures

\* C7: an image scored against itself by the pHash pipeline, two
\* fingerprints at Hamming distance 0, gets exactly 100.
C7_SelfScoreIs100 ==
    (Scored /\ file1.hash = file2.hash) => ret = Returned(Num(100))

C7_Witness ==
    /\ Scored
    /\ file1 = file2
    /\ file1.hash = Low(20)
    /\ ret.kind = "return"

\* C8: for two fingerprints the score of match_features followed by
\* calculate_match_score is the same in both argument orders and lies in
\* the closed range from 0 to 100.
C8_ScoreSymmetricInRange ==
    Scored =>
        /\ ret.kind = "return"
        /\ ~IsNaN(ret.value)
        /\ ~FracLess(ret.value, Num(0))
        /\ ~FracLess(Num(100), ret.value)
        /\ ret.value = calculate_match_score(
                           match_features(Hash(file2.hash), Hash(file1.hash), method),
                           method)

C8_Witness ==
    /\ Scored
    /\ file1.hash = Low(3)
    /\ file2.hash = Low(12)
    /\ FracLess(Num(0), ret.value)
    /\ FracLess(ret.value, Num(100))

\* C9: the distance of two fingerprints is an integer from 0 to 64, and the
\* score falls strictly as the distance grows: the score returned for
\* distance d is above the score of every larger distance and below the score
\* of every smaller one, 100 at distance 0 and 0 at distance 64.
ScoreAt(d) == calculate_match_score(<<[distance |-> d]>>, "phash")

C9_ScoreStrictlyDecreasing ==
    (method = "phash" /\ matches # <<>>) =>
        LET d == matches[1].distance
        IN  /\ d \in 0..HASH_BITS
            /\ dpc = "done" =>
                  /\ ret.kind = "return"
                  /\ \A d2 \in 0..HASH_BITS :
                        /\ d < d2 => FracLess(ScoreAt(d2), ret.value)
                        /\ d2 < d => FracLess(ret.value, ScoreAt(d2))
                  /\ d = 0 => ret.value = Num(100)
                  /\ d = HASH_BITS => ret.value = Num(0)

C9_Witness ==
    /\ dpc = "done"
    /\ method = "phash"
    /\ matches # <<>>
    /\ matches[1].distance = HASH_BITS
    /\ ret = Returned(Num(0))

(***************************************************************************)
(* apply_manipulations() of manipulate.py, followed by a run of detect.py  *)
(* on the same two directories.                                            *)
(***************************************************************************)
\* the dict MANIPULATION_TYPES of manipulate.py, in insertion order
MANIPULATE_TYPES ==
    << <<97, "crop_20">>, <<98, "rotate_10">>, <<99, "flip_h">>,
       <<100, "brightness_1.3">>, <<101, "contrast_0.7">>,
       <<102, "gaussian_blur">>, <<103, "noise_saltpepper">>,
       <<104, "color_filter">>, <<105, "watermark">>,
       <<106, "canvas_expand">>, <<107, "jpeg_compression">>,
       <<108, "collage">>, <<109, "text_obfuscation">>,
       <<110, "invert_colors">> >>

\* the entries the producer is run with, the same prefix as the driver's
ManipulateCatalogue == SubSeq(MANIPULATE_TYPES, 1, NumManip)

\* apply_manipulation raises: np.random.choice(files, 3, replace=False) of
\* the collage needs three files that pass the filter of line 92
ManipulationRaises(manipulation) ==
    /\ manipulation = "collage"
    /\ Cardinality({f \in originals.names : IsImageNameCaseSensitive(f)}) < 3

InitPipeline ==
    /\ originals \in [status : DirStatus,
                      names : {S \in SUBSET CandidateNames : Cardinality(S) <= MaxFiles}]
    /\ originals.status # "ok" => originals.names = {}
    /\ manipulatedDir \in DirStatus
    /\ originalSeen = NoFiles
    /\ manipulatedSeen = NoFiles
    /\ pc = "off"
    /\ original_files = <<>>
    /\ oi = 0
    /\ ki = 1
    /\ results = [c \in {"image_id"} |-> <<>>]
    /\ detect_calls = {}
    /\ df = <<>>
    /\ avg_scores = [c \in {} |-> NaN]
    /\ hardest_manip = ""
    /\ hardest_score = NaN
    /\ csv = [written |-> FALSE, rows |-> <<>>]
    /\ DetectIdle
    /\ manip_pc = "start"
    /\ manip_files = <<>>
    /\ manip_i = 0
    /\ manip_k = 1
    /\ FetchIdle

\* lines 119-121 raise: os.listdir on a missing or unreadable originals
\* directory
ManipListFails ==
    /\ manip_pc = "start"
    /\ originals.status # "ok"
    /\ manip_pc' = "aborted"
    /\ manipulatedDir' = IF manipulatedDir = "absent" THEN "ok" ELSE manipulatedDir
    /\ UNCHANGED <<manip_files, manip_i, manip_k>>
    /\ UNCHANGED <<originals, originalSeen, manipulatedSeen>>
    /\ UNCHANGED <<mainVars, detectVars, fetchVars>>

\* lines 119-122: the output directory is made when missing, the originals
\* are listed, filtered without lower() and sorted
ManipList ==
    /\ manip_pc = "start"
    /\ originals.status = "ok"
    /\ manipulatedDir' = IF manipulatedDir = "absent" THEN "ok" ELSE manipulatedDir
    /\ manip_files' = sorted({f \in originals.names : IsImageNameCaseSensitive(f)})
    /\ manip_pc' = "loop"
    /\ UNCHANGED <<manip_i, manip_k>>
    /\ UNCHANGED <<originals, originalSeen, manipulatedSeen>>
    /\ UNCHANGED <<mainVars, detectVars, fetchVars>>

ManipInnerLoopOver == manip_i = 0 \/ manip_k > Len(ManipulateCatalogue)

\* lines 124-127: Image.open(img_path).convert("RGB"), not guarded
ManipOpen ==
    /\ manip_pc = "loop"
    /\ ManipInnerLoopOver
    /\ manip_i < Len(manip_files)
    /\ \E f \in ObserveContent(originalSeen, manip_files[manip_i + 1], OriginalFiles) :
          /\ originalSeen' = Remember(originalSeen, manip_files[manip_i + 1], f)
          /\ IF OpenRaises(f) \/ ConvertRaises(f)
             THEN /\ manip_pc' = "aborted"
                  /\ UNCHANGED <<manip_i, manip_k>>
             ELSE /\ manip_pc' = manip_pc
                  /\ manip_i' = manip_i + 1
                  /\ manip_k' = 1
    /\ UNCHANGED <<manip_files, originals, manipulatedDir, manipulatedSeen>>
    /\ UNCHANGED <<mainVars, detectVars, fetchVars>>

\* lines 129-133: one manipulated picture saved as {name}{letter}.jpg
ManipSave ==
    /\ manip_pc = "loop"
    /\ manip_i >= 1
    /\ manip_k <= Len(ManipulateCatalogue)
    /\ LET name == splitext0(manip_files[manip_i])
           output_filename == ManipFileName(name, ManipulateCatalogue[manip_k][1])
       IN  IF \/ ManipulationRaises(ManipulateCatalogue[manip_k][2])
              \/ manipulatedDir # "ok"
           THEN /\ manip_pc' = "aborted"
                /\ UNCHANGED <<manip_k, manipulatedSeen>>
           ELSE /\ \E h \in DriverHashes :
                      manipulatedSeen' =
                          Remember(manipulatedSeen, output_filename, Picture(h))
                /\ manip_k' = manip_k + 1
                /\ manip_pc' = manip_pc
    /\ UNCHANGED <<manip_files, manip_i, originals, manipulatedDir, originalSeen>>
    /\ UNCHANGED <<mainVars, detectVars, fetchVars>>

\* the loop of line 124 is over
ManipDone ==
    /\ manip_pc = "loop"
    /\ ManipInnerLoopOver
    /\ manip_i = Len(manip_files)
    /\ manip_pc' = "done"
    /\ UNCHANGED <<manip_files, manip_i, manip_k>>
    /\ UNCHANGED <<fsVars, mainVars, detectVars, fetchVars>>

\* detect.py is started once manipulate.py has completed
RunDetect ==
    /\ manip_pc = "done"
    /\ pc = "off"
    /\ pc' = "start"
    /\ UNCHANGED <<original_files, oi, ki, results, detect_calls, df, avg_scores,
                   hardest_manip, hardest_score, csv>>
    /\ UNCHANGED <<fsVars, detectVars, manipVars, fetchVars>>

NextPipeline ==
    \/ ManipListFails
    \/ ManipList
    \/ ManipOpen
    \/ ManipSave
    \/ ManipDone
    \/ RunDetect
    \/ ListOriginals
    \/ NextImage
    \/ CellMissing
    \/ CellDetect
    \/ Report

SpecPipeline == InitPipeline /\ [][NextPipeline]_vars

\* C11: after apply_manipulations has completed, the driver finds the file
\* {identifier}{code}.jpg for every original it enumerates and every
\* catalogue code: no cell takes the missing-file path.
C11_NoMissingFileAfterManipulation ==
    (manip_pc = "done" /\ pc \in {"loop", "done", "aborted"}) =>
        \A i \in 1..oi : \A k \in 1..K :
            CellFile(i, k) \in DOMAIN manipulatedSeen =>
                manipulatedSeen[CellFile(i, k)] # Absent

\* what does hold: the originals the producer itself enumerates have all
\* their files when the driver looks for them
ProducedFilesAreFound ==
    (manip_pc = "done" /\ pc \in {"loop", "done", "aborted"}) =>
        \A i \in 1..oi : \A k \in 1..K :
            (/\ IsImageNameCaseSensitive(original_files[i])
             /\ CellFile(i, k) \in DOMAIN manipulatedSeen) =>
                manipulatedSeen[CellFile(i, k)].kind = "image"

(***************************************************************************)
(* fetch_images_from_pixabay() of fetch_images.py.                         *)
(***************************************************************************)
IMAGES_TO_DOWNLOAD == 600
\* the safety limit of line 97
MAX_PAGE == 50
\* a response carries at most this many hits
MaxHits == 2

\* numbers of matching files the originals folder can hold at the start
ExistingCounts ==
    {0, 1, IMAGES_TO_DOWNLOAD - 2, IMAGES_TO_DOWNLOAD - 1, IMAGES_TO_DOWNLOAD,
     IMAGES_TO_DOWNLOAD + 1}

\* what requests.get(page url) and response.json() can give: an exception,
\* a status other than 200, or a body with some hits (none when 'hits' is
\* missing or empty)
Response(kind, hits) == [kind |-> kind, hits |-> hits]
Responses ==
    {Response("exception", 0), Response("status", 0)}
        \cup {Response("ok", n) : n \in 0..MaxHits}

\* one hit either ends in a saved file, or is skipped: no URL, a status
\* other than 200, or an exception caught at line 90
DownloadOutcomes == {"saved", "skipped"}

InitFetch ==
    /\ MainIdle
    /\ DetectIdle
    /\ ManipIdle
    /\ fetch_pc = "start"
    /\ existing_images \in ExistingCounts
    /\ downloaded_count = 0
    /\ page = 1
    /\ hits_left = 0
    /\ page_requests = 0

\* lines 21-39: return at once when enough files exist, else set the counters
FetchCheck ==
    /\ fetch_pc = "start"
    /\ IF existing_images >= IMAGES_TO_DOWNLOAD
       THEN /\ fetch_pc' = "done"
            /\ UNCHANGED <<downloaded_count, page>>
       ELSE /\ downloaded_count' = existing_images
            /\ page' = 1
            /\ fetch_pc' = "while"
    /\ UNCHANGED <<existing_images, hits_left, page_requests>>
    /\ UNCHANGED <<fsVars, mainVars, detectVars, manipVars>>

\* line 41, condition false: the while loop ends
WhileExit ==
    /\ fetch_pc = "while"
    /\ downloaded_count >= IMAGES_TO_DOWNLOAD
    /\ fetch_pc' = "done"
    /\ UNCHANGED <<existing_images, downloaded_count, page, hits_left, page_requests>>
    /\ UNCHANGED <<fsVars, mainVars, detectVars, manipVars>>

\* lines 41-54: one API page request and the checks on its response
PageRequest ==
    /\ fetch_pc = "while"
    /\ downloaded_count < IMAGES_TO_DOWNLOAD
    /\ page_requests' = page_requests + 1
    /\ \E response \in Responses :
          IF response.kind = "exception"
          THEN fetch_pc' = "raised" /\ hits_left' = hits_left
          ELSE IF response.kind = "status" \/ response.hits = 0
          THEN fetch_pc' = "done" /\ hits_left' = hits_left
          ELSE fetch_pc' = "for" /\ hits_left' = response.hits
    /\ UNCHANGED <<existing_images, downloaded_count, page>>
    /\ UNCHANGED <<fsVars, mainVars, detectVars, manipVars>>

\* lines 57-59: break out of the for loop once the target is reached
ImageBreak ==
    /\ fetch_pc = "for"
    /\ hits_left > 0
    /\ downloaded_count >= IMAGES_TO_DOWNLOAD
    /\ hits_left' = 0
    /\ UNCHANGED <<fetch_pc, existing_images, downloaded_count, page, page_requests>>
    /\ UNCHANGED <<fsVars, mainVars, detectVars, manipVars>>

\* lines 57-92: one hit downloaded and saved, or skipped
ImageDownload ==
    /\ fetch_pc = "for"
    /\ hits_left > 0
    /\ downloaded_count < IMAGES_TO_DOWNLOAD
    /\ \E outcome \in DownloadOutcomes :
          downloaded_count' =
              IF outcome = "saved" THEN downloaded_count + 1 ELSE downloaded_count
    /\ hits_left' = hits_left - 1
    /\ UNCHANGED <<fetch_pc, existing_images, page, page_requests>>
    /\ UNCHANGED <<fsVars, mainVars, detectVars, manipVars>>

\* variant of the page limit: one page too many
PageEndLateLimit ==
    /\ fetch_pc = "for"
    /\ hits_left = 0
    /\ page' = page + 1
    /\ fetch_pc' = IF page' > MAX_PAGE + 1 THEN "done" ELSE "while"
    /\ UNCHANGED <<existing_images, downloaded_count, hits_left, page_requests>>
    /\ UNCHANGED <<fsVars, mainVars, detectVars, manipVars>>

\* lines 94-99: the next page, and the break of the safety check
PageEnd ==
    /\ fetch_pc = "for"
    /\ hits_left = 0
    /\ page' = page + 1
    /\ fetch_pc' = IF page' > MAX_PAGE THEN "done" ELSE "while"
    /\ UNCHANGED <<existing_images, downloaded_count, hits_left, page_requests>>
    /\ UNCHANGED <<fsVars, mainVars, detectVars, manipVars>>

NextFetch ==
    \/ FetchCheck
    \/ WhileExit
    \/ PageRequest
    \/ ImageBreak
    \/ ImageDownload
    \/ PageEnd

\* the function is sequential code: whenever it has a next statement it runs it
SpecFetch == InitFetch /\ [][NextFetch]_vars /\ WF_vars(NextFetch)

FetchOver == fetch_pc \in {"done", "raised"}

FetchWithinLimits ==
    /\ page_requests <= MAX_PAGE
    /\ downloaded_count <= IMAGES_TO_DOWNLOAD
    /\ existing_images >= IMAGES_TO_DOWNLOAD => page_requests = 0

\* C12: for any responses and download outcomes the function comes to an
\* end, having issued at most 50 page requests, with downloaded_count never
\* above IMAGES_TO_DOWNLOAD, and with no request at all when the folder
\* already holds IMAGES_TO_DOWNLOAD matching files.
C12_FetchTerminates == []FetchWithinLimits /\ <>FetchOver

C12_Witness ==
    /\ fetch_pc = "done"
    /\ page_requests = MAX_PAGE
    /\ page = MAX_PAGE + 1
    /\ downloaded_count > existing_images
    /\ downloaded_count < IMAGES_TO_DOWNLOAD

=============================================================================
